---- MODULE Spec2Model ----
(***************************************************************************)
(* Model of src/src/agents/models/mcp_model.py: ServerConfig, MCPTool,     *)
(* create_mcp_tools and MCPToolProvider (the session cache, the per-server *)
(* listing and the aggregation over all servers), called from a small set  *)
(* of caller threads against tool servers whose transport may fail.        *)
(***************************************************************************)
EXTENDS Integers, Sequences, FiniteSets, TLC

\* ------------------------------------------------------------------ bounds
\* Cap on transport-open attempts (channels ever created) in one behaviour.
MaxOpens == 3

\* ------------------------------------------------------------------ inputs
None == "None"
Threads == {"t1", "t2"}
ServerNames == {"A", "B"}
UnknownName == "X"
BaseUrls == {None, "", "http://h"}
Commands == {None, "python"}
Catalogs == {<<"echo", "add">>, <<"add">>}
Values == {"hi", "bye"}

\* Python truthiness of an Optional[str].
Truthy(x) == x # None /\ x # ""

\* ------------------------------------------------------------------ values
NoConfig == [name |-> "", base_url |-> None, command |-> None]
NoError == [etype |-> "", about |-> "", cause |-> ""]
NoTool == [name |-> "", session |-> 0]
NoRequest == [session |-> 0, name |-> "", arguments |-> [text |-> ""]]
NoKwargs == [text |-> ""]

Result(kind, error, session, tools, payload, config) ==
    [kind |-> kind, error |-> error, session |-> session, tools |-> tools,
     payload |-> payload, config |-> config]
NoResult == Result("none", NoError, 0, <<>>, "", NoConfig)
Raised(error) == Result("error", error, 0, <<>>, "", NoConfig)
Error(etype, about, cause) == [etype |-> etype, about |-> about, cause |-> cause]

\* ------------------------------------------------------------ ServerConfig
\* ServerConfig.__init__: the validation of lines 59-64.
ServerConfig_init_BothAccepted(name, base_url, command) ==
    IF base_url = None /\ command = None
    THEN Raised(Error("ValueError", name, "must have either base_url or command"))
    ELSE Result("ok", NoError, 0, <<>>, "",
                [name |-> name, base_url |-> base_url, command |-> command])

ServerConfig_init(name, base_url, command) ==
    IF base_url = None /\ command = None
    THEN Raised(Error("ValueError", name, "must have either base_url or command"))
    ELSE IF base_url # None /\ command # None
    THEN Raised(Error("ValueError", name, "cannot have both base_url and command"))
    ELSE Result("ok", NoError, 0, <<>>, "",
                [name |-> name, base_url |-> base_url, command |-> command])

\* ------------------------------------------------------------ MCPToolProvider.__init__
\* Lines 145-161: returns the constructed fields (sessions is the empty cache of
\* line 161) and the transports the constructor opened (none), or ok = FALSE for
\* the ValueErrors.
NoSessions == [n \in {} |-> 0]

MCPToolProvider_init_Eager(servers_in, default_in, api_key) ==
    IF ~Truthy(api_key) \/ servers_in = <<>>
    THEN [ok |-> FALSE, servers |-> <<>>, default_server |-> None,
          sessions |-> NoSessions, opened |-> <<>>]
    ELSE [ok |-> TRUE, servers |-> servers_in,
          default_server |-> IF ~Truthy(default_in) THEN servers_in[1].name
                             ELSE default_in,
          sessions |-> (servers_in[1].name :> 1),
          opened |-> <<[server |-> servers_in[1].name, transport |-> "stdio",
                        target |-> servers_in[1].command, state |-> "ready"]>>]

MCPToolProvider_init(servers_in, default_in, api_key) ==
    IF ~Truthy(api_key)
    THEN [ok |-> FALSE, servers |-> <<>>, default_server |-> None,
          sessions |-> NoSessions, opened |-> <<>>]
    ELSE IF servers_in = <<>>
    THEN [ok |-> FALSE, servers |-> <<>>, default_server |-> None,
          sessions |-> NoSessions, opened |-> <<>>]
    ELSE [ok |-> TRUE, servers |-> servers_in,
          default_server |-> IF ~Truthy(default_in) THEN servers_in[1].name
                             ELSE default_in,
          sessions |-> NoSessions, opened |-> <<>>]

\* The configurations the bridge is constructed with.
Cfg(name, base_url, command) == ServerConfig_init(name, base_url, command).config
ServerLists ==
    { <<Cfg("A", "http://h", None), Cfg("B", None, "python")>>,
      <<Cfg("A", None, "python"), Cfg("B", "", None)>> }
Defaults == {None, "B", UnknownName}

VARIABLES
    servers,        \* self._servers
    default_server, \* self._default_server
    sessions,       \* self._sessions: server name -> session id
    channels,       \* every transport opened so far; a session's id is its channel's index
    advertised,     \* what each tool server currently lists
    pc,             \* per thread: where its call stands
    op,             \* per thread: the operation it called
    given,          \* per thread: the server_name argument as passed
    server_name,    \* per thread: local server_name of _get_or_create_session
    idx,            \* per thread: position of get_all_tools' loop in self._servers
    all_tools,      \* per thread: get_all_tools' accumulator
    session,        \* per thread: local session
    tool,           \* per thread: the MCPTool invoked
    kwargs,         \* per thread: the arguments of the invocation
    request,        \* per thread: the call_tool request put on the session
    cfg_in,         \* per thread: the arguments of ServerConfig(...)
    io,             \* per thread: the transport events of the current call
    result          \* per thread: what the call returned or raised

vars == <<servers, default_server, sessions, channels, advertised, pc, op, given,
          server_name, idx, all_tools, session, tool, kwargs, request, cfg_in, io,
          result>>

provider == <<servers, default_server>>
locals == <<given, server_name, idx, all_tools, session, tool, kwargs, request, cfg_in>>

Init ==
    /\ \E sl \in ServerLists, d \in Defaults :
         LET p == MCPToolProvider_init(sl, d, "key") IN
           /\ p.ok
           /\ servers = p.servers
           /\ default_server = p.default_server
           /\ sessions = p.sessions
           /\ channels = p.opened
    /\ advertised \in [ServerNames -> Catalogs]
    /\ pc = [t \in Threads |-> "idle"]
    /\ op = [t \in Threads |-> "none"]
    /\ given = [t \in Threads |-> None]
    /\ server_name = [t \in Threads |-> None]
    /\ idx = [t \in Threads |-> 0]
    /\ all_tools = [t \in Threads |-> <<>>]
    /\ session = [t \in Threads |-> 0]
    /\ tool = [t \in Threads |-> NoTool]
    /\ kwargs = [t \in Threads |-> NoKwargs]
    /\ request = [t \in Threads |-> NoRequest]
    /\ cfg_in = [t \in Threads |-> NoConfig]
    /\ io = [t \in Threads |-> <<>>]
    /\ result = [t \in Threads |-> NoResult]

\* ------------------------------------------------------------------ helpers
ConfiguredNames == {servers[i].name : i \in 1..Len(servers)}

\* Line 170: next((s for s in self._servers if s.name == server_name), None).
FindConfig_FirstAsFallback(name) ==
    IF \E i \in 1..Len(servers) : servers[i].name = name
    THEN servers[CHOOSE i \in 1..Len(servers) :
                   /\ servers[i].name = name
                   /\ \A j \in 1..(i - 1) : servers[j].name # name]
    ELSE servers[1]

FindConfig(name) ==
    IF \E i \in 1..Len(servers) : servers[i].name = name
    THEN servers[CHOOSE i \in 1..Len(servers) :
                   /\ servers[i].name = name
                   /\ \A j \in 1..(i - 1) : servers[j].name # name]
    ELSE NoConfig

\* Line 166: server_name in self._sessions.
CacheHit_Never(name) == FALSE

CacheHit(name) == name \in DOMAIN sessions

\* Line 177: if server_config.base_url: http_client(...) else: stdio_client(...).
TransportOf(cfg) == IF Truthy(cfg.base_url) THEN "http" ELSE "stdio"
TargetOf(cfg) == IF Truthy(cfg.base_url) THEN cfg.base_url ELSE cfg.command

\* Lines 216-217: a missing server_name is the default server.
Resolve_FirstServer(name) == IF name = None THEN servers[1].name ELSE name

Resolve(name) == IF name = None THEN default_server ELSE name

\* Lines 124-131: one MCPTool per listed tool, bound to the listing session.
MCPTool_init(name, client_session) == [name |-> name, session |-> client_session]

create_mcp_tools(client_session, mcp_tools) ==
    [i \in 1..Len(mcp_tools) |-> MCPTool_init(mcp_tools[i], client_session)]

\* Line 241: all_tools.extend(tools).
Extend_Prepend(acc, tools) == tools \o acc

Extend(acc, tools) == acc \o tools

\* Lines 99-102: the request _call_mcp_tool puts on its session.
CallRequest_NoArguments(tl, kw) ==
    [session |-> tl.session, name |-> tl.name, arguments |-> NoKwargs]

CallRequest_LatestSession(tl, kw) ==
    [session |-> Len(channels), name |-> tl.name, arguments |-> kw]

CallRequest(tl, kw) ==
    [session |-> tl.session, name |-> tl.name, arguments |-> kw]

\* The tool server's answer to a call it accepts: "echo" returns its text.
ServerAnswer(req) == IF req.name = "echo" THEN req.arguments.text ELSE "done"

Event(ev, server, ok, catalog) ==
    [ev |-> ev, server |-> server, ok |-> ok, catalog |-> catalog]

Log(t, e) == io' = [io EXCEPT ![t] = Append(@, e)]

\* An exception leaving _get_or_create_session or create_mcp_tools: no frame above
\* (get_tools_from_server, get_all_tools) catches it, so the call ends with it.
Propagate_SkipServer(t, error) ==
    IF op[t] = "all"
    THEN /\ pc' = [pc EXCEPT ![t] = "loop"]
         /\ idx' = [idx EXCEPT ![t] = @ + 1]
         /\ UNCHANGED <<result, all_tools>>
    ELSE /\ pc' = [pc EXCEPT ![t] = "idle"]
         /\ result' = [result EXCEPT ![t] = Raised(error)]
         /\ UNCHANGED <<idx, all_tools>>

Propagate(t, error) ==
    /\ pc' = [pc EXCEPT ![t] = "idle"]
    /\ result' = [result EXCEPT ![t] = Raised(error)]
    /\ UNCHANGED <<idx, all_tools>>

\* _get_or_create_session returns s (lines 167, 203) to its caller.
ReturnSession(t, s) ==
    /\ session' = [session EXCEPT ![t] = s]
    /\ IF op[t] = "get"
       THEN /\ pc' = [pc EXCEPT ![t] = "idle"]
            /\ result' = [result EXCEPT ![t] = Result("ok", NoError, s, <<>>, "", NoConfig)]
       ELSE /\ pc' = [pc EXCEPT ![t] = "list"]
            /\ UNCHANGED result

\* A call starts: the thread's locals are those of the new call.
Begin(t, o, g, sn, i, tl, kw, rq, ci) ==
    /\ pc[t] = "idle"
    /\ op' = [op EXCEPT ![t] = o]
    /\ given' = [given EXCEPT ![t] = g]
    /\ server_name' = [server_name EXCEPT ![t] = sn]
    /\ idx' = [idx EXCEPT ![t] = i]
    /\ all_tools' = [all_tools EXCEPT ![t] = <<>>]
    /\ session' = [session EXCEPT ![t] = 0]
    /\ tool' = [tool EXCEPT ![t] = tl]
    /\ kwargs' = [kwargs EXCEPT ![t] = kw]
    /\ request' = [request EXCEPT ![t] = rq]
    /\ cfg_in' = [cfg_in EXCEPT ![t] = ci]

\* ------------------------------------------------------------------ actions
\* ServerConfig(name, base_url=..., command=...).
NewServerConfig(t) ==
    \E n \in ServerNames, b \in BaseUrls, c \in Commands :
      LET ci == [name |-> n, base_url |-> b, command |-> c] IN
        /\ Begin(t, "config", None, None, 0, NoTool, NoKwargs, NoRequest, ci)
        /\ result' = [result EXCEPT ![t] = ServerConfig_init(n, b, c)]
        /\ io' = [io EXCEPT ![t] = <<>>]
        /\ UNCHANGED <<provider, sessions, channels, advertised, pc>>

\* provider._get_or_create_session(name) called directly.
CallGetSession(t) ==
    \E n \in ServerNames \cup {UnknownName} :
        /\ Begin(t, "get", n, n, 0, NoTool, NoKwargs, NoRequest, NoConfig)
        /\ pc' = [pc EXCEPT ![t] = "check"]
        /\ result' = [result EXCEPT ![t] = NoResult]
        /\ io' = [io EXCEPT ![t] = <<>>]
        /\ UNCHANGED <<provider, sessions, channels, advertised>>

\* provider.get_tools_from_server(name), lines 216-220.
CallGetTools(t) ==
    \E n \in ServerNames \cup {UnknownName, None} :
        /\ Begin(t, "tools", n, Resolve(n), 0, NoTool, NoKwargs, NoRequest, NoConfig)
        /\ pc' = [pc EXCEPT ![t] = "check"]
        /\ result' = [result EXCEPT ![t] = NoResult]
        /\ io' = [io EXCEPT ![t] = <<>>]
        /\ UNCHANGED <<provider, sessions, channels, advertised>>

\* provider.get_all_tools(), line 236.
CallGetAllTools(t) ==
    /\ Begin(t, "all", None, None, 1, NoTool, NoKwargs, NoRequest, NoConfig)
    /\ pc' = [pc EXCEPT ![t] = "loop"]
    /\ result' = [result EXCEPT ![t] = NoResult]
    /\ io' = [io EXCEPT ![t] = <<>>]
    /\ UNCHANGED <<provider, sessions, channels, advertised>>

\* Lines 239-243: the next server of the loop, or the return of all_tools.
ForEachServer(t) ==
    /\ pc[t] = "loop"
    /\ IF idx[t] <= Len(servers)
       THEN /\ server_name' = [server_name EXCEPT ![t] = Resolve(servers[idx[t]].name)]
            /\ pc' = [pc EXCEPT ![t] = "check"]
            /\ UNCHANGED result
       ELSE /\ pc' = [pc EXCEPT ![t] = "idle"]
            /\ result' = [result EXCEPT ![t] =
                            Result("ok", NoError, 0, all_tools[t], "", NoConfig)]
            /\ UNCHANGED server_name
    /\ UNCHANGED <<provider, sessions, channels, advertised, op, given, idx, all_tools,
                   session, tool, kwargs, request, cfg_in, io>>

\* Lines 166-172: the cache lookup, then the configuration lookup.
CheckCache(t) ==
    /\ pc[t] = "check"
    /\ IF CacheHit(server_name[t])
       THEN ReturnSession(t, sessions[server_name[t]])
       ELSE IF FindConfig(server_name[t]) = NoConfig
       THEN /\ pc' = [pc EXCEPT ![t] = "idle"]
            /\ result' = [result EXCEPT ![t] =
                 Raised(Error("ValueError", server_name[t], "No server configuration found"))]
            /\ UNCHANGED session
       ELSE /\ pc' = [pc EXCEPT ![t] = "open"]
            /\ UNCHANGED <<result, session>>
    /\ UNCHANGED <<provider, sessions, channels, advertised, op, given, server_name, idx,
                   all_tools, tool, kwargs, request, cfg_in, io>>

\* Lines 175-194: http_client(...) or stdio_client(...); it may fail.
OpenTransport(t) ==
    /\ pc[t] = "open"
    /\ Len(channels) < MaxOpens
    /\ LET cfg == FindConfig(server_name[t])
           ch(st) == [server |-> cfg.name, transport |-> TransportOf(cfg),
                      target |-> TargetOf(cfg), state |-> st]
       IN \/ /\ TargetOf(cfg) # None
             /\ channels' = Append(channels, ch("open"))
             /\ session' = [session EXCEPT ![t] = Len(channels) + 1]
             /\ pc' = [pc EXCEPT ![t] = "init"]
             /\ Log(t, Event("open", cfg.name, TRUE, <<>>))
             /\ UNCHANGED <<result, idx, all_tools>>
          \/ /\ channels' = Append(channels, ch("connect_failed"))
             /\ Log(t, Event("open", cfg.name, FALSE, <<>>))
             /\ Propagate(t, Error("ConnectionError", cfg.name, ""))
             /\ UNCHANGED session
    /\ UNCHANGED <<provider, sessions, advertised, op, given, server_name, tool, kwargs,
                   request, cfg_in>>

\* Lines 197-198 with the cache written before the handshake instead of after it.
Initialize_CacheFirst(t) ==
    /\ pc[t] = "init"
    /\ sessions' = (server_name[t] :> session[t]) @@ sessions
    /\ LET s == session[t] IN
       \/ /\ channels' = [channels EXCEPT ![s].state = "ready"]
          /\ pc' = [pc EXCEPT ![t] = "cache"]
          /\ Log(t, Event("init", channels[s].server, TRUE, <<>>))
          /\ UNCHANGED <<result, idx, all_tools>>
       \/ /\ channels' = [channels EXCEPT ![s].state = "init_failed"]
          /\ Log(t, Event("init", channels[s].server, FALSE, <<>>))
          /\ Propagate(t, Error("InitializationError", channels[s].server, ""))
    /\ UNCHANGED <<provider, advertised, op, given, server_name, session, tool,
                   kwargs, request, cfg_in>>

\* Lines 197-198: ClientSession(read_stream, write_stream); session.initialize().
Initialize(t) ==
    /\ pc[t] = "init"
    /\ LET s == session[t] IN
       \/ /\ channels' = [channels EXCEPT ![s].state = "ready"]
          /\ pc' = [pc EXCEPT ![t] = "cache"]
          /\ Log(t, Event("init", channels[s].server, TRUE, <<>>))
          /\ UNCHANGED <<result, idx, all_tools>>
       \/ /\ channels' = [channels EXCEPT ![s].state = "init_failed"]
          /\ Log(t, Event("init", channels[s].server, FALSE, <<>>))
          /\ Propagate(t, Error("InitializationError", channels[s].server, ""))
    /\ UNCHANGED <<provider, sessions, advertised, op, given, server_name, session, tool,
                   kwargs, request, cfg_in>>

\* Lines 201-203 with the cache replaced by a new dict holding the one entry.
CacheSession_Reset(t) ==
    /\ pc[t] = "cache"
    /\ sessions' = (server_name[t] :> session[t])
    /\ ReturnSession(t, session[t])
    /\ UNCHANGED <<provider, channels, advertised, op, given, server_name, idx, all_tools,
                   tool, kwargs, request, cfg_in, io>>

\* Lines 201-203: self._sessions[server_name] = session; return session.
CacheSession(t) ==
    /\ pc[t] = "cache"
    /\ sessions' = (server_name[t] :> session[t]) @@ sessions
    /\ ReturnSession(t, session[t])
    /\ UNCHANGED <<provider, channels, advertised, op, given, server_name, idx, all_tools,
                   tool, kwargs, request, cfg_in, io>>

\* The session behind channel c answers requests only while it is Ready; once
\* closed, every request on it fails with a state error.
SessionAccepts(c) == channels[c].state = "ready"
ListFailure(c) == IF channels[c].state = "closed" THEN "StateError" ELSE "McpError"
CallFailures == {"ConnectionError", "McpError"}
CallFailuresOf(c) == IF channels[c].state = "closed" THEN {"StateError"} ELSE CallFailures

\* Lines 225-226 and 121-133 with the tools of an earlier listing over the same
\* session kept and returned instead of a new list_tools() request.
ListTools_Cached(t) ==
    /\ pc[t] = "list"
    /\ LET s == session[t]
           srv == channels[s].server
           kept == {u \in Threads : result[u].tools # <<>> /\ result[u].tools[1].session = s}
           tools == IF kept # {} THEN result[CHOOSE u \in kept : TRUE].tools
                    ELSE create_mcp_tools(s, advertised[srv])
       IN \/ /\ SessionAccepts(s) \/ kept # {}
             /\ IF kept # {} THEN UNCHANGED io
                ELSE Log(t, Event("list", srv, TRUE, advertised[srv]))
             /\ IF op[t] = "tools"
                THEN /\ pc' = [pc EXCEPT ![t] = "idle"]
                     /\ result' = [result EXCEPT ![t] =
                                     Result("ok", NoError, 0, tools, "", NoConfig)]
                     /\ UNCHANGED <<idx, all_tools>>
                ELSE /\ pc' = [pc EXCEPT ![t] = "loop"]
                     /\ all_tools' = [all_tools EXCEPT ![t] = Extend(@, tools)]
                     /\ idx' = [idx EXCEPT ![t] = @ + 1]
                     /\ UNCHANGED result
          \/ /\ kept = {}
             /\ Log(t, Event("list", srv, FALSE, <<>>))
             /\ Propagate(t, Error(ListFailure(s), srv, ""))
    /\ UNCHANGED <<provider, sessions, channels, advertised, op, given, server_name,
                   session, tool, kwargs, request, cfg_in>>

\* Lines 225-226 and 121-133: list_tools() on the session, one MCPTool per entry;
\* then get_tools_from_server returns, and get_all_tools extends all_tools (241).
ListTools(t) ==
    /\ pc[t] = "list"
    /\ LET s == session[t]
           srv == channels[s].server
           tools == create_mcp_tools(s, advertised[srv])
       IN \/ /\ SessionAccepts(s)
             /\ Log(t, Event("list", srv, TRUE, advertised[srv]))
             /\ IF op[t] = "tools"
                THEN /\ pc' = [pc EXCEPT ![t] = "idle"]
                     /\ result' = [result EXCEPT ![t] =
                                     Result("ok", NoError, 0, tools, "", NoConfig)]
                     /\ UNCHANGED <<idx, all_tools>>
                ELSE /\ pc' = [pc EXCEPT ![t] = "loop"]
                     /\ all_tools' = [all_tools EXCEPT ![t] = Extend(@, tools)]
                     /\ idx' = [idx EXCEPT ![t] = @ + 1]
                     /\ UNCHANGED result
          \/ /\ Log(t, Event("list", srv, FALSE, <<>>))
             /\ Propagate(t, Error(ListFailure(s), srv, ""))
    /\ UNCHANGED <<provider, sessions, channels, advertised, op, given, server_name,
                   session, tool, kwargs, request, cfg_in>>

\* The tools the runtime holds: those of the listings last returned, and the tools
\* it invoked last.
HeldTools ==
    UNION {{result[u].tools[i] : i \in 1..Len(result[u].tools)} \cup ({tool[u]} \ {NoTool})
             : u \in Threads}

\* Lines 104-106: the exception of call_tool is logged and raised again as an
\* AgentsException naming the tool.
ToolFailure_Swallowed(tl, e) == Result("ok", NoError, 0, <<>>, "", NoConfig)

ToolFailure(tl, e) == Raised(Error("AgentsException", tl.name, e))

\* Lines 96-106, MCPTool._call_mcp_tool(**kwargs).
InvokeTool_Reraise(t) ==
    \E tl \in HeldTools, v \in Values :
      LET kw == [text |-> v]
          req == CallRequest(tl, kw)
          srv == channels[req.session].server
      IN /\ Begin(t, "invoke", None, None, 0, tl, kw, req, NoConfig)
         /\ \/ /\ SessionAccepts(req.session)
               /\ req.name \in {advertised[srv][i] : i \in 1..Len(advertised[srv])}
               /\ io' = [io EXCEPT ![t] = <<Event("call", srv, TRUE, <<>>)>>]
               /\ result' = [result EXCEPT ![t] =
                               Result("ok", NoError, 0, <<>>, ServerAnswer(req), NoConfig)]
            \/ \E e \in CallFailuresOf(req.session) :
                 /\ io' = [io EXCEPT ![t] = <<Event("call", srv, FALSE, <<>>)>>]
                 /\ result' = [result EXCEPT ![t] = Raised(Error(e, srv, ""))]
         /\ UNCHANGED <<provider, sessions, channels, advertised, pc>>

InvokeTool(t) ==
    \E tl \in HeldTools, v \in Values :
      LET kw == [text |-> v]
          req == CallRequest(tl, kw)
          srv == channels[req.session].server
      IN /\ Begin(t, "invoke", None, None, 0, tl, kw, req, NoConfig)
         /\ \/ /\ SessionAccepts(req.session)
               /\ req.name \in {advertised[srv][i] : i \in 1..Len(advertised[srv])}
               /\ io' = [io EXCEPT ![t] = <<Event("call", srv, TRUE, <<>>)>>]
               /\ result' = [result EXCEPT ![t] =
                               Result("ok", NoError, 0, <<>>, ServerAnswer(req), NoConfig)]
            \/ \E e \in CallFailuresOf(req.session) :
                 /\ io' = [io EXCEPT ![t] = <<Event("call", srv, FALSE, <<>>)>>]
                 /\ result' = [result EXCEPT ![t] = ToolFailure(tl, e)]
         /\ UNCHANGED <<provider, sessions, channels, advertised, pc>>

\* Session.close() on an initialized session (the code never calls it; its owner
\* may): the session is Closed from then on.
SessionCloses(c) ==
    /\ channels[c].state = "ready"
    /\ channels' = [channels EXCEPT ![c].state = "closed"]
    /\ UNCHANGED <<provider, sessions, advertised, pc, op, locals, io, result>>

\* The channel of an initialized session breaks (the subprocess exits, the
\* connection drops): the session is Failed from then on.
ChannelBreaks(c) ==
    /\ channels[c].state = "ready"
    /\ channels' = [channels EXCEPT ![c].state = "failed"]
    /\ UNCHANGED <<provider, sessions, advertised, pc, op, locals, io, result>>

\* A tool server changes what it advertises.
ServerChanges(n) ==
    /\ \E c \in Catalogs \ {advertised[n]} : advertised' = [advertised EXCEPT ![n] = c]
    /\ UNCHANGED <<provider, sessions, channels, pc, op, locals, io, result>>

\* ------------------------------------------------------------------ specifications
\* One caller: each call runs to its end before the next one starts.
MainThread == "t1"

Next ==
    \/ NewServerConfig(MainThread)
    \/ CallGetSession(MainThread)
    \/ CallGetTools(MainThread)
    \/ CallGetAllTools(MainThread)
    \/ ForEachServer(MainThread)
    \/ CheckCache(MainThread)
    \/ OpenTransport(MainThread)
    \/ Initialize(MainThread)
    \/ CacheSession(MainThread)
    \/ ListTools(MainThread)
    \/ InvokeTool(MainThread)
    \/ \E n \in ServerNames : ServerChanges(n)

Spec == Init /\ [][Next]_vars

\* Callers on several threads inside _get_or_create_session: the threads run between
\* any two of its steps (the transport open and the handshake block on I/O).
ThreadsNext ==
    \/ \E t \in Threads : CallGetSession(t)
    \/ \E t \in Threads : CheckCache(t)
    \/ \E t \in Threads : OpenTransport(t)
    \/ \E t \in Threads : Initialize(t)
    \/ \E t \in Threads : CacheSession(t)

ThreadsSpec == Init /\ [][ThreadsNext]_vars

\* Two callers of a provider built without naming a default server (the first
\* configured server is the default) take turns listing tools
\* (a call starts and runs only while the other caller is between calls); each
\* keeps what its last call returned.
Alone(t) == \A u \in Threads \ {t} : pc[u] = "idle"

CallersInit == Init /\ default_server = servers[1].name

CallersNext ==
    \/ \E t \in Threads : Alone(t) /\ CallGetTools(t)
    \/ \E t \in Threads : Alone(t) /\ CheckCache(t)
    \/ \E t \in Threads : Alone(t) /\ OpenTransport(t)
    \/ \E t \in Threads : Alone(t) /\ Initialize(t)
    \/ \E t \in Threads : Alone(t) /\ CacheSession(t)
    \/ \E t \in Threads : Alone(t) /\ ListTools(t)
    \/ \E n \in ServerNames : ServerChanges(n)

CallersSpec == CallersInit /\ [][CallersNext]_vars

\* One caller over sessions that, once initialized, may be closed by their owner
\* or lose their channel.
LifeNext ==
    \/ CallGetSession(MainThread)
    \/ CallGetTools(MainThread)
    \/ CheckCache(MainThread)
    \/ OpenTransport(MainThread)
    \/ Initialize(MainThread)
    \/ CacheSession(MainThread)
    \/ ListTools(MainThread)
    \/ InvokeTool(MainThread)
    \/ \E n \in ServerNames : ServerChanges(n)
    \/ \E c \in 1..Len(channels) : SessionCloses(c)
    \/ \E c \in 1..Len(channels) : ChannelBreaks(c)

LifeSpec == Init /\ [][LifeNext]_vars

\* ------------------------------------------------------------------ properties
\* Transport-open attempts made for server n so far.
Opens(n) == Cardinality({c \in 1..Len(channels) : channels[c].server = n})
Finished(t, o) == op[t] = o /\ pc[t] = "idle"
ToolNames(tools) == [i \in 1..Len(tools) |-> tools[i].name]

\* C1 as stated: once a get has succeeded for a name, every get returns the cached
\* session and the number of transport-open attempts for that name is one.
C1_AttemptsStayAtOne ==
    /\ \A t \in Threads : Finished(t, "get") /\ result[t].kind = "ok"
          => result[t].session = sessions[server_name[t]]
    /\ \A n \in DOMAIN sessions : Opens(n) = 1

\* C1 amended: once a get has succeeded for a name, the cached session is never
\* replaced, every later get returns it, and no later step opens a transport for
\* that name: the number of open attempts stays what it was when the get succeeded.
C1_CachedSessionReused ==
    /\ [](\A t \in Threads : Finished(t, "get") /\ result[t].kind = "ok"
             => result[t].session = sessions[server_name[t]])
    /\ [][\A n \in DOMAIN sessions :
             /\ n \in DOMAIN sessions'
             /\ sessions'[n] = sessions[n]
             /\ Opens(n)' = Opens(n)]_vars

\* A get answered from the cache, with no transport event, after an earlier attempt
\* for the same name had failed.
C1_Witness ==
    \E t \in Threads :
        /\ Finished(t, "get") /\ result[t].kind = "ok" /\ io[t] = <<>>
        /\ result[t].session = sessions[server_name[t]]
        /\ Opens(server_name[t]) = 2

\* C2: concurrent gets for one name construct one session: no server ever has two
\* channels that were opened successfully and not failed since, and all callers of
\* one name receive the same session.
C2_SingleConstruction ==
    /\ \A n \in ServerNames :
          Cardinality({c \in 1..Len(channels) :
                          /\ channels[c].server = n
                          /\ channels[c].state \in {"open", "ready"}}) <= 1
    /\ \A t, u \in Threads :
          /\ Finished(t, "get") /\ result[t].kind = "ok"
          /\ Finished(u, "get") /\ result[u].kind = "ok"
          /\ server_name[t] = server_name[u]
          => result[t].session = result[u].session

\* C3: a failed transport open or handshake ends the call with the error and adds
\* nothing to the cache (no cached session is anything but initialized); the next
\* lookup of an uncached configured name goes on to open a transport again, and a
\* get that succeeds has cached its session.
C3_FailureNotCached ==
    /\ [](\A n \in DOMAIN sessions :
             channels[sessions[n]].state = "ready" /\ channels[sessions[n]].server = n)
    /\ [](\A t \in Threads : Finished(t, "get") /\ result[t].kind = "ok"
             => /\ server_name[t] \in DOMAIN sessions
                /\ sessions[server_name[t]] = result[t].session)
    /\ [][\A t \in Threads :
             /\ (/\ Len(io'[t]) = Len(io[t]) + 1
                 /\ io'[t][Len(io'[t])].ev \in {"open", "init"}
                 /\ ~io'[t][Len(io'[t])].ok)
                  => /\ result'[t].kind = "error"
                     /\ pc'[t] = "idle"
                     /\ sessions' = sessions
             /\ (pc[t] = "check" /\ pc'[t] # "check"
                   /\ server_name[t] \in ConfiguredNames
                   /\ server_name[t] \notin DOMAIN sessions)
                  => pc'[t] = "open"]_vars

\* A get that succeeded and cached its session after an attempt for the same name
\* had failed.
C3_Witness ==
    \E t \in Threads :
        /\ Finished(t, "get") /\ result[t].kind = "ok"
        /\ sessions[server_name[t]] = result[t].session
        /\ result[t].session > 1
        /\ \E c \in 1..Len(channels) :
              /\ channels[c].server = server_name[t]
              /\ channels[c].state \in {"connect_failed", "init_failed"}

\* C4: whatever the session's call_tool raised, the caller of the tool sees an
\* AgentsException that names the tool invoked, never the raw error.
C4_UniformToolError ==
    \A t \in Threads :
        op[t] = "invoke" /\ io[t] # <<>> /\ ~io[t][1].ok
        => /\ result[t].kind = "error"
           /\ result[t].error.etype = "AgentsException"
           /\ result[t].error.about = tool[t].name

\* An invocation whose call_tool failed.
C4_Witness ==
    \E t \in Threads :
        /\ op[t] = "invoke" /\ io[t] # <<>> /\ ~io[t][1].ok
        /\ result[t].error.etype = "AgentsException"
        /\ tool[t].name = "echo"

\* C5: in get_all_tools a failed transport event is the last event of the call: the
\* call ends there with the error, returns no tool, and has contacted no server
\* configured after the failing one.
C5_FailFast ==
    \A t \in Threads :
        op[t] = "all" /\ (\E i \in 1..Len(io[t]) : ~io[t][i].ok)
        => /\ ~io[t][Len(io[t])].ok
           /\ \A i \in 1..(Len(io[t]) - 1) : io[t][i].ok
           /\ pc[t] = "idle"
           /\ result[t].kind = "error"
           /\ result[t].tools = <<>>
           /\ idx[t] <= Len(servers)
           /\ io[t][Len(io[t])].server = servers[idx[t]].name
           /\ \A i \in 1..Len(io[t]) :
                 \E j \in 1..idx[t] : io[t][i].server = servers[j].name

\* get_all_tools over [A, B]: A was listed, then B's connection failed.
C5_Witness ==
    \E t \in Threads :
        /\ Finished(t, "all") /\ result[t].kind = "error"
        /\ Len(io[t]) > 1
        /\ io[t][1].server = servers[1].name
        /\ \E i \in 1..Len(io[t]) : io[t][i].ev = "list" /\ io[t][i].ok
        /\ io[t][Len(io[t])] = Event("open", servers[2].name, FALSE, <<>>)

\* C6: the lookup of a name that is not configured raises the ValueError naming it,
\* opens no transport and leaves the cache as it was; no channel and no cache entry
\* ever exists for such a name.
C6_UnknownServer ==
    /\ [](/\ DOMAIN sessions \subseteq ConfiguredNames
          /\ \A c \in 1..Len(channels) : channels[c].server \in ConfiguredNames
          /\ \A t \in Threads :
                Finished(t, "get") /\ server_name[t] \notin ConfiguredNames
                => /\ result[t].kind = "error"
                   /\ result[t].error.etype = "ValueError"
                   /\ result[t].error.about = server_name[t]
                   /\ io[t] = <<>>)
    /\ [][\A t \in Threads :
             pc[t] = "check" /\ pc'[t] # "check" /\ server_name[t] \notin ConfiguredNames
             => /\ pc'[t] = "idle"
                /\ result'[t].kind = "error"
                /\ sessions' = sessions
                /\ channels' = channels]_vars

\* A get for the unknown name has failed while another server's session is cached.
C6_Witness ==
    \E t \in Threads :
        /\ Finished(t, "get") /\ server_name[t] = UnknownName
        /\ result[t].error.etype = "ValueError"
        /\ DOMAIN sessions # {}

\* C7: ServerConfig(...) with both base_url and command, or with neither, raises the
\* ValueError naming the server; with exactly one it returns the configuration; and
\* the construction changes nothing of the bridge.
C7_ConfigValidation ==
    /\ [](\A t \in Threads :
            op[t] = "config" =>
              LET ci == cfg_in[t]
                  both == ci.base_url # None /\ ci.command # None
                  neither == ci.base_url = None /\ ci.command = None
              IN IF both \/ neither
                 THEN /\ result[t].kind = "error"
                      /\ result[t].error.etype = "ValueError"
                      /\ result[t].error.about = ci.name
                 ELSE /\ result[t].kind = "ok"
                      /\ result[t].config = ci)
    /\ [][\A t \in Threads :
             op'[t] = "config" /\ <<op[t], cfg_in[t], result[t]>>' # <<op[t], cfg_in[t], result[t]>>
             => UNCHANGED <<servers, default_server, sessions, channels, advertised>>]_vars

\* A construction given both a base_url and a command has been rejected while the
\* bridge holds a cached session.
C7_Witness ==
    \E t \in Threads :
        /\ op[t] = "config" /\ result[t].kind = "error"
        /\ cfg_in[t].base_url # None /\ cfg_in[t].command # None
        /\ DOMAIN sessions # {}

\* C8: get_tools_from_server returns, in order, exactly the tools its target server
\* advertises at the listing, each bound to a session of that server; the target is
\* the default server when no name was given, the named server otherwise.
C8_ListsTargetServer ==
    [][\A t \in Threads :
          op[t] = "tools" /\ pc[t] # "idle" /\ pc'[t] = "idle" /\ result'[t].kind = "ok"
          => LET target == IF given[t] = None THEN default_server ELSE given[t] IN
               /\ ToolNames(result'[t].tools) = advertised[target]
               /\ \A i \in 1..Len(result'[t].tools) :
                     channels[result'[t].tools[i].session].server = target]_vars

\* The default server is the second one, the two servers advertise different
\* tools, and a listing with no name has returned the default server's.
C8_Witness ==
    \E t \in Threads :
        /\ Finished(t, "tools") /\ result[t].kind = "ok" /\ given[t] = None
        /\ default_server = servers[2].name
        /\ advertised[servers[1].name] # advertised[servers[2].name]
        /\ ToolNames(result[t].tools) = advertised[default_server]

\* C9: a successful invocation has put on the tool's own session a request with the
\* tool's name and exactly the caller's arguments, and returns the server's answer to
\* it: for "echo", the text that was passed.
C9_RoundTrip ==
    \A t \in Threads :
        op[t] = "invoke" /\ result[t].kind = "ok"
        => /\ request[t].session = tool[t].session
           /\ request[t].name = tool[t].name
           /\ request[t].arguments = kwargs[t]
           /\ result[t].payload = ServerAnswer(request[t])
           /\ (tool[t].name = "echo" => result[t].payload = kwargs[t].text)

\* echo invoked with {text: "hi"} has returned "hi".
C9_Witness ==
    \E t \in Threads :
        /\ op[t] = "invoke" /\ result[t].kind = "ok"
        /\ tool[t].name = "echo" /\ kwargs[t].text = "hi" /\ result[t].payload = "hi"

RECURSIVE Concat(_)
Concat(lists) == IF lists = <<>> THEN <<>> ELSE Head(lists) \o Concat(Tail(lists))
IsList(e) == e.ev = "list"

\* C10: a get_all_tools that succeeded listed every configured server once, in
\* configuration order, and returns the concatenation of what each listing
\* returned, in that order, each tool bound to a session of its own server.
C10_ConcatenationInOrder ==
    \A t \in Threads :
        Finished(t, "all") /\ result[t].kind = "ok"
        => LET lists == SelectSeq(io[t], IsList) IN
             /\ Len(lists) = Len(servers)
             /\ \A i \in 1..Len(lists) : lists[i].server = servers[i].name
             /\ ToolNames(result[t].tools)
                  = Concat([i \in 1..Len(lists) |-> lists[i].catalog])
             /\ \A i \in 1..Len(lists) : \A k \in 1..Len(lists[i].catalog) :
                   LET before == Len(Concat([j \in 1..(i - 1) |-> lists[j].catalog])) IN
                     channels[result[t].tools[before + k].session].server
                       = servers[i].name

\* The two servers advertise different lists and get_all_tools has returned three
\* tools.
C10_Witness ==
    \E t \in Threads :
        /\ Finished(t, "all") /\ result[t].kind = "ok"
        /\ Len(result[t].tools) = 3
        /\ ToolNames(result[t].tools)[1] # ToolNames(result[t].tools)[3]

\* C11: a call that ended on a failed transport open or handshake ended with a
\* SessionCreationError that names the server and carries the original error as its
\* cause, never with the original error itself.
C11_WrappedCreationError ==
    \A t \in Threads :
        /\ pc[t] = "idle" /\ op[t] \in {"get", "tools", "all"}
        /\ io[t] # <<>>
        /\ io[t][Len(io[t])].ev \in {"open", "init"}
        /\ ~io[t][Len(io[t])].ok
        => /\ result[t].kind = "error"
           /\ result[t].error.etype = "SessionCreationError"
           /\ result[t].error.about = io[t][Len(io[t])].server
           /\ result[t].error.cause \in {"ConnectionError", "InitializationError"}

\* A channel whose streams are open: the code closes none, so a channel whose
\* handshake failed stays open like one that is initialized.
StreamsOpen(c) == channels[c].state \in {"open", "init_failed", "ready", "failed"}

\* C13: no server has, in any state, more than one channel whose streams are open.
C13_OneOpenChannelPerServer ==
    \A n \in ServerNames :
        Cardinality({c \in 1..Len(channels) : channels[c].server = n /\ StreamsOpen(c)}) <= 1

\* C18: every channel was opened over the transport of the variant its
\* configuration was given: the network transport when a base_url was given (an
\* empty one included), the subprocess transport when only a command was.
C18_TransportOfAcceptedVariant ==
    \A c \in 1..Len(channels) :
        LET cfg == FindConfig(channels[c].server) IN
          /\ cfg.base_url # None => channels[c].transport = "http"
          /\ cfg.base_url = None => channels[c].transport = "stdio"

\* C19: the default server of a constructed provider names a configured server, and
\* get_tools_from_server with no server name never fails for an unknown server.
C19_DefaultIsConfigured ==
    /\ default_server \in ConfiguredNames
    /\ \A t \in Threads :
          Finished(t, "tools") /\ given[t] = None /\ result[t].kind = "error"
          => result[t].error.etype # "ValueError"

\* The server a running call is asking for.
Requested(t) ==
    IF op[t] = "all" THEN servers[idx[t]].name
    ELSE IF given[t] = None THEN default_server ELSE given[t]

ChannelServers == [c \in 1..Len(channels) |-> channels[c].server]

\* C15: the constructed provider has opened no transport and caches no session; a
\* transport is opened only by a call that is asking for that very server; and a
\* call for one server has transport events with that server only.
C15_LazySessions ==
    /\ channels = <<>> /\ DOMAIN sessions = {}
    /\ [][ChannelServers' # ChannelServers =>
            \E t \in Threads :
                /\ pc[t] = "open"
                /\ ChannelServers' = Append(ChannelServers, Requested(t))]_vars
    /\ [](\A t \in Threads :
             op[t] \in {"get", "tools"}
             => \A i \in 1..Len(io[t]) : io[t][i].server = Requested(t))

\* The listing of the second server has returned, and the only transport ever
\* opened is to that server: the first server has no session.
C15_Witness ==
    \E t \in Threads :
        /\ Finished(t, "tools") /\ result[t].kind = "ok"
        /\ given[t] = servers[2].name
        /\ channels # <<>>
        /\ \A c \in 1..Len(channels) : channels[c].server = servers[2].name
        /\ servers[1].name \notin DOMAIN sessions

\* C20: a step of a lookup for one name changes the cache at most by writing that
\* name's entry: every entry of another name is there afterwards with the same
\* session; and no step of a running call, whether it then succeeds or fails,
\* changes the entry of a name other than the one it is looking up.
C20_OtherEntriesUntouched ==
    /\ [][sessions' # sessions =>
            \E t \in Threads :
                /\ pc[t] = "cache"
                /\ DOMAIN sessions' = DOMAIN sessions \cup {server_name[t]}
                /\ \A n \in DOMAIN sessions \ {server_name[t]} :
                      sessions'[n] = sessions[n]]_vars
    /\ [][\A t \in Threads : \A n \in DOMAIN sessions :
             pc[t] # "idle" /\ server_name[t] # n
             => n \in DOMAIN sessions' /\ sessions'[n] = sessions[n]]_vars

\* get_all_tools over [A, B] has failed at B's connection; A's session, which an
\* earlier call had cached and this call reused without opening a transport, is
\* still cached.
C20_Witness ==
    \E t \in Threads :
        /\ Finished(t, "all") /\ result[t].kind = "error"
        /\ Len(io[t]) = 2
        /\ io[t][1] = Event("list", servers[1].name, TRUE, advertised[servers[1].name])
        /\ io[t][2] = Event("open", servers[2].name, FALSE, <<>>)
        /\ servers[1].name \in DOMAIN sessions
        /\ channels[sessions[servers[1].name]].state = "ready"
        /\ servers[2].name \notin DOMAIN sessions

\* C12: a request on a closed session fails with a state error: a listing through
\* a lookup that returned the closed session ends with that error, and a tool
\* invocation on it ends with an error whose cause is that error.
C12_ClosedSessionRefuses ==
    [][\A t \in Threads :
          /\ (pc[t] = "list" /\ pc'[t] # "list"
                /\ channels[session[t]].state = "closed")
             => /\ pc'[t] = "idle" /\ result'[t].kind = "error"
                /\ result'[t].error.etype = "StateError"
                /\ ~io'[t][Len(io'[t])].ok
          /\ (op'[t] = "invoke"
                /\ <<op[t], tool[t], kwargs[t], io[t], result[t]>>
                     # <<op'[t], tool'[t], kwargs'[t], io'[t], result'[t]>>
                /\ channels[tool'[t].session].state = "closed")
             => /\ result'[t].kind = "error"
                /\ result'[t].error.cause = "StateError"
                /\ ~io'[t][1].ok]_vars

\* A tool of a session that has since been closed was invoked and the call ended
\* with an error caused by the state error.
C12_Witness ==
    \E t \in Threads :
        /\ Finished(t, "invoke") /\ result[t].kind = "error"
        /\ channels[tool[t].session].state = "closed"
        /\ result[t].error.cause = "StateError"
        /\ tool[t].session \in {sessions[n] : n \in DOMAIN sessions}

\* C14: every cached session is Ready, and a listing is only about to be issued on
\* a Ready session.
C14_CachedSessionsReady ==
    /\ \A n \in DOMAIN sessions : channels[sessions[n]].state = "ready"
    /\ \A t \in Threads : pc[t] = "list" => channels[session[t]].state = "ready"

\* C16: a get_tools that succeeds ends on a list request it has just put to the
\* server, the only one of the call, and returns what the server advertises at
\* that moment, whatever an earlier call over the same session returned.
C16_ListedAnew ==
    [][\A t \in Threads :
          op[t] = "tools" /\ pc[t] = "list" /\ pc'[t] = "idle" /\ result'[t].kind = "ok"
          => /\ Len(io'[t]) = Len(io[t]) + 1
             /\ Len(SelectSeq(io'[t], IsList)) = 1
             /\ io'[t][Len(io'[t])].ev = "list"
             /\ io'[t][Len(io'[t])].catalog = advertised[channels[session[t]].server]
             /\ ToolNames(result'[t].tools) = advertised[channels[session[t]].server]]_vars

\* Two calls for the same server have returned tools of the same session, the
\* second without opening anything, and their lists differ.
C16_Witness ==
    \E t, u \in Threads :
        /\ t # u
        /\ Finished(t, "tools") /\ result[t].kind = "ok"
        /\ Finished(u, "tools") /\ result[u].kind = "ok"
        /\ Requested(t) = Requested(u)
        /\ result[t].tools[1].session = result[u].tools[1].session
        /\ Len(io[u]) = 1 /\ io[u][1].ev = "list"
        /\ ToolNames(result[u].tools) = advertised[Requested(u)]
        /\ ToolNames(result[t].tools) # ToolNames(result[u].tools)

\* C17: every invocation of a tool, successful or not, puts one request with the
\* tool's name on the session the tool was created with, which is a session of
\* the server it was listed from, whatever sessions were created since.
C17_BoundToOwnSession ==
    \A t \in Threads :
        op[t] = "invoke"
        => /\ request[t].name = tool[t].name
           /\ request[t].session = tool[t].session
           /\ Len(io[t]) = 1 /\ io[t][1].ev = "call"
           /\ io[t][1].server = channels[tool[t].session].server

\* Both servers advertise "add"; the first server's "add", created before the
\* second server's session existed, has been invoked on the first server.
C17_Witness ==
    \E t \in Threads :
        /\ Finished(t, "invoke") /\ result[t].kind = "ok"
        /\ DOMAIN sessions = {servers[1].name, servers[2].name}
        /\ tool[t].session = sessions[servers[1].name]
        /\ sessions[servers[2].name] > tool[t].session
        /\ tool[t].name = "add"
        /\ advertised[servers[2].name] = <<"add">>
        /\ io[t][1].server = servers[1].name

====
